---- MODULE Spec2Model ----
(***************************************************************************)
(* Model of build.rs: the cargo build script that regenerates the          *)
(* configure script of the vendored library mypkg when it is missing,      *)
(* builds the library with autotools::build and prints the two cargo link  *)
(* directives.                                                             *)
(*                                                                         *)
(* One run of the script is one process; the source tree (the marker file  *)
(* mypkg/configure) outlives the runs, so the model strings up to MaxRuns  *)
(* runs on the same tree.  The two blocking calls (Command::status and     *)
(* autotools::build) are split at the point where the script blocks: one   *)
(* action makes the call, another is the call returning.                   *)
(***************************************************************************)
EXTENDS Naturals, Sequences, FiniteSets

\* Number of consecutive runs of the script on the same source tree.
MaxRuns == 3

\* A path is a sequence of units of an OS string.  A unit is a fragment of
\* valid UTF-8 text or the unit InvalidUnit, a byte sequence that is not UTF-8.
InvalidUnit == "\\xFF"

\* U+FFFD, what a lossy conversion puts in place of invalid bytes.
ReplacementChar == "<U+FFFD>"

\* Values the environment variable OUT_DIR may hold when the script runs.
OutDirEnv ==
    { <<"/tmp", "/out">>,
      <<"target", "/debug", "/build", "/mypkg-0a1b", "/out">>,
      <<"/">>,
      <<"/tmp", InvalidUnit, "/out">> }

\* Whether an OS string is valid Unicode.
IsUnicode(p) == \A i \in 1..Len(p) : p[i] # InvalidUnit

\* The text an OS string that is valid Unicode stands for.
RECURSIVE PathText(_)
PathText(p) == IF p = <<>> THEN "" ELSE Head(p) \o PathText(Tail(p))

\* Path::display(): the lossy rendering of a path; invalid units become U+FFFD.
RECURSIVE Display(_)
Display(p) ==
    IF p = <<>> THEN ""
    ELSE (IF Head(p) = InvalidUnit THEN ReplacementChar ELSE Head(p))
         \o Display(Tail(p))

\* The line printed by println!("cargo:rustc-link-search=native={}/lib", dst.display()).
LinkSearchLine(dst) == "cargo:rustc-link-search=native=" \o Display(dst) \o "/lib"

\* The line printed by println!("cargo:rustc-link-lib=static=mypkg").
LinkLibLine == "cargo:rustc-link-lib=static=mypkg"

\* Outcomes of Command::new("autoreconf")...status(): Err (the tool could
\* not be launched), Ok(exit status 0), Ok(exit status non-zero).
ReconfOutcomes == {"launchfail", "exit0", "nonzero"}

VARIABLES
    marker,         \* the file mypkg/configure exists
    run,            \* index of the current run of the script
    pc,             \* position of the current run in main
    startMarker,    \* marker as it was when the current run started
    sawMarker,      \* result of Path::exists() in the current run
    reconfCalls,    \* calls of Command::status() on autoreconf in this run
    reconfOutcome,  \* outcome of that call, "none" before it returns
    buildCalls,     \* calls of autotools::build in this run
    buildOutcome,   \* "none", "ok" or "fail"
    dst,            \* the path autotools::build returned
    stdout,         \* lines the current run printed
    exitCode,       \* "running", "0" (main returned) or "101" (panic)
    trace,          \* steps of the current run, in order
    firstMarker,    \* marker before the first run
    reconfOkTotal   \* successful configuration generations over all runs

vars == <<marker, run, pc, startMarker, sawMarker, reconfCalls, reconfOutcome,
          buildCalls, buildOutcome, dst, stdout, exitCode, trace,
          firstMarker, reconfOkTotal>>

runVars == <<run, startMarker, firstMarker>>

Init ==
    /\ marker \in BOOLEAN
    /\ run = 1
    /\ pc = "check"
    /\ startMarker = marker
    /\ firstMarker = marker
    /\ sawMarker = FALSE
    /\ reconfCalls = 0
    /\ reconfOutcome = "none"
    /\ buildCalls = 0
    /\ buildOutcome = "none"
    /\ dst = <<>>
    /\ stdout = <<>>
    /\ exitCode = "running"
    /\ trace = <<>>
    /\ reconfOkTotal = 0

\* A panic: unwinds main, nothing more runs, the process exits with 101.
Panic ==
    /\ pc' = "exited"
    /\ exitCode' = "101"

\* The check is dropped and autoreconf is never run.
CheckMarkerSkipsReconf ==
    /\ pc = "check"
    /\ sawMarker' = marker
    /\ pc' = "call_build"
    /\ trace' = Append(trace, "check")
    /\ UNCHANGED <<marker, runVars, reconfCalls, reconfOutcome, buildCalls,
                   buildOutcome, dst, stdout, exitCode, reconfOkTotal>>

\* The check is dropped and autoreconf is run in every run.
CheckMarkerAlwaysReconf ==
    /\ pc = "check"
    /\ sawMarker' = marker
    /\ pc' = "call_autoreconf"
    /\ trace' = Append(trace, "check")
    /\ UNCHANGED <<marker, runVars, reconfCalls, reconfOutcome, buildCalls,
                   buildOutcome, dst, stdout, exitCode, reconfOkTotal>>

\* The negation is lost: autoreconf is run when the marker exists.
CheckMarkerInverted ==
    /\ pc = "check"
    /\ sawMarker' = marker
    /\ pc' = IF marker THEN "call_autoreconf" ELSE "call_build"
    /\ trace' = Append(trace, "check")
    /\ UNCHANGED <<marker, runVars, reconfCalls, reconfOutcome, buildCalls,
                   buildOutcome, dst, stdout, exitCode, reconfOkTotal>>

\* if !Path::new("mypkg/configure").exists()
CheckMarker ==
    /\ pc = "check"
    /\ sawMarker' = marker
    /\ pc' = IF ~marker THEN "call_autoreconf" ELSE "call_build"
    /\ trace' = Append(trace, "check")
    /\ UNCHANGED <<marker, runVars, reconfCalls, reconfOutcome, buildCalls,
                   buildOutcome, dst, stdout, exitCode, reconfOkTotal>>

\* Command::spawn() in place of status(): the script does not wait.
CallAutoreconfNoWait ==
    /\ pc = "call_autoreconf"
    /\ pc' = "call_build"
    /\ reconfCalls' = reconfCalls + 1
    /\ trace' = Append(trace, "reconf_call")
    /\ UNCHANGED <<marker, runVars, sawMarker, reconfOutcome, buildCalls,
                   buildOutcome, dst, stdout, exitCode, reconfOkTotal>>

\* Command::new("autoreconf").args(&["-i", "mypkg"]).status(): the call is
\* made and the script blocks in it.
CallAutoreconf ==
    /\ pc = "call_autoreconf"
    /\ pc' = "in_autoreconf"
    /\ reconfCalls' = reconfCalls + 1
    /\ trace' = Append(trace, "reconf_call")
    /\ UNCHANGED <<marker, runVars, sawMarker, reconfOutcome, buildCalls,
                   buildOutcome, dst, stdout, exitCode, reconfOkTotal>>

\* status() returns and .unwrap() is applied to the io::Result: only Err
\* (launch failure) panics; Ok(status) is dropped whatever the exit status.
\* A run of autoreconf that exits 0 has written mypkg/configure; one that
\* exits non-zero may or may not have got as far as writing it.
AutoreconfReturn(outcome, wrote) ==
    /\ pc = "in_autoreconf"
    /\ reconfOutcome' = outcome
    /\ trace' = Append(trace, "reconf_ret")
    /\ marker' = CASE outcome = "exit0" -> TRUE
                   [] outcome = "nonzero" -> (marker \/ wrote)
                   [] OTHER -> marker
    /\ reconfOkTotal' = IF outcome = "exit0" THEN reconfOkTotal + 1
                        ELSE reconfOkTotal
    /\ IF outcome = "launchfail"
       THEN Panic
       ELSE pc' = "call_build" /\ UNCHANGED exitCode
    /\ UNCHANGED <<runVars, sawMarker, reconfCalls, buildCalls, buildOutcome,
                   dst, stdout>>

\* let dst = autotools::build("mypkg"): the call is made and the script
\* blocks in it.
CallBuild ==
    /\ pc = "call_build"
    /\ pc' = "in_build"
    /\ buildCalls' = buildCalls + 1
    /\ trace' = Append(trace, "build_call")
    /\ UNCHANGED <<marker, runVars, sawMarker, reconfCalls, reconfOutcome,
                   buildOutcome, dst, stdout, exitCode, reconfOkTotal>>

\* The failure of the build is swallowed and main goes on to print.
BuildReturnSwallowsFailure(outDir, ok) ==
    /\ pc = "in_build"
    /\ trace' = Append(trace, "build_ret")
    /\ buildOutcome' = IF ok /\ marker /\ IsUnicode(outDir) THEN "ok" ELSE "fail"
    /\ dst' = IF IsUnicode(outDir) THEN outDir ELSE <<>>
    /\ pc' = "emit_search"
    /\ UNCHANGED <<marker, runVars, sawMarker, reconfCalls, reconfOutcome,
                   buildCalls, stdout, exitCode, reconfOkTotal>>

\* The failure of the build makes main return early, without a panic.
BuildReturnEarlyReturn(outDir, ok) ==
    /\ pc = "in_build"
    /\ trace' = Append(trace, "build_ret")
    /\ IF ok /\ marker /\ IsUnicode(outDir)
       THEN /\ buildOutcome' = "ok"
            /\ dst' = outDir
            /\ pc' = "emit_search"
       ELSE /\ buildOutcome' = "fail"
            /\ pc' = "return"
            /\ UNCHANGED dst
    /\ UNCHANGED <<marker, runVars, sawMarker, reconfCalls, reconfOutcome,
                   buildCalls, stdout, exitCode, reconfOkTotal>>

\* After a successful build main prints the link-lib directive only.
BuildReturnSkipsSearch(outDir, ok) ==
    /\ pc = "in_build"
    /\ trace' = Append(trace, "build_ret")
    /\ IF ok /\ marker /\ IsUnicode(outDir)
       THEN /\ buildOutcome' = "ok"
            /\ dst' = outDir
            /\ pc' = "emit_lib"
            /\ UNCHANGED exitCode
       ELSE /\ buildOutcome' = "fail"
            /\ Panic
            /\ UNCHANGED dst
    /\ UNCHANGED <<marker, runVars, sawMarker, reconfCalls, reconfOutcome,
                   buildCalls, stdout, reconfOkTotal>>

\* autotools::build returns.  It takes its destination from OUT_DIR, read as
\* a String, runs mypkg/configure, make and make install, and returns the
\* destination; it panics when OUT_DIR is not Unicode, when configure is not
\* there to be run, or when any of the commands fails (ok = FALSE).
BuildReturn(outDir, ok) ==
    /\ pc = "in_build"
    /\ trace' = Append(trace, "build_ret")
    /\ IF ok /\ marker /\ IsUnicode(outDir)
       THEN /\ buildOutcome' = "ok"
            /\ dst' = outDir
            /\ pc' = "emit_search"
            /\ UNCHANGED exitCode
       ELSE /\ buildOutcome' = "fail"
            /\ Panic
            /\ UNCHANGED dst
    /\ UNCHANGED <<marker, runVars, sawMarker, reconfCalls, reconfOutcome,
                   buildCalls, stdout, reconfOkTotal>>

\* The directive is printed without the lib subdirectory.
EmitLinkSearchNoLib ==
    /\ pc = "emit_search"
    /\ stdout' = Append(stdout, "cargo:rustc-link-search=native=" \o Display(dst))
    /\ trace' = Append(trace, "emit_search")
    /\ pc' = "emit_lib"
    /\ UNCHANGED <<marker, runVars, sawMarker, reconfCalls, reconfOutcome,
                   buildCalls, buildOutcome, dst, exitCode, reconfOkTotal>>

\* println!("cargo:rustc-link-search=native={}/lib", dst.display());
EmitLinkSearch ==
    /\ pc = "emit_search"
    /\ stdout' = Append(stdout, LinkSearchLine(dst))
    /\ trace' = Append(trace, "emit_search")
    /\ pc' = "emit_lib"
    /\ UNCHANGED <<marker, runVars, sawMarker, reconfCalls, reconfOutcome,
                   buildCalls, buildOutcome, dst, exitCode, reconfOkTotal>>

\* println!("cargo:rustc-link-lib=static=mypkg");
EmitLinkLib ==
    /\ pc = "emit_lib"
    /\ stdout' = Append(stdout, LinkLibLine)
    /\ trace' = Append(trace, "emit_lib")
    /\ pc' = "return"
    /\ UNCHANGED <<marker, runVars, sawMarker, reconfCalls, reconfOutcome,
                   buildCalls, buildOutcome, dst, exitCode, reconfOkTotal>>

\* main returns: the process exits with status 0.
MainReturn ==
    /\ pc = "return"
    /\ pc' = "exited"
    /\ exitCode' = "0"
    /\ UNCHANGED <<marker, runVars, sawMarker, reconfCalls, reconfOutcome,
                   buildCalls, buildOutcome, dst, stdout, trace, reconfOkTotal>>

\* The enclosing build runs the script again on the same source tree.
NextRun ==
    /\ pc = "exited"
    /\ run < MaxRuns
    /\ run' = run + 1
    /\ pc' = "check"
    /\ startMarker' = marker
    /\ sawMarker' = FALSE
    /\ reconfCalls' = 0
    /\ reconfOutcome' = "none"
    /\ buildCalls' = 0
    /\ buildOutcome' = "none"
    /\ dst' = <<>>
    /\ stdout' = <<>>
    /\ exitCode' = "running"
    /\ trace' = <<>>
    /\ UNCHANGED <<marker, firstMarker, reconfOkTotal>>

\* The steps main itself takes, as opposed to an external process returning.
MainStep ==
    \/ CheckMarker
    \/ CallAutoreconf
    \/ CallBuild
    \/ EmitLinkSearch
    \/ EmitLinkLib
    \/ MainReturn

ReconfReturns == \E o \in ReconfOutcomes, w \in BOOLEAN : AutoreconfReturn(o, w)

BuildReturns == \E d \in OutDirEnv, ok \in BOOLEAN : BuildReturn(d, ok)

Next ==
    \/ CheckMarker
    \/ CallAutoreconf
    \/ ReconfReturns
    \/ CallBuild
    \/ BuildReturns
    \/ EmitLinkSearch
    \/ EmitLinkLib
    \/ MainReturn
    \/ NextRun

Spec == Init /\ [][Next]_vars

\* The process of a run is scheduled: a step main can take is taken.  Nothing
\* makes an external process return, and nothing makes the enclosing build
\* run the script again.
FairSpec == Spec /\ WF_vars(MainStep)

----------------------------------------------------------------------------
(* Properties *)

\* s is an initial segment of t.
IsPrefix(s, t) ==
    /\ Len(s) <= Len(t)
    /\ \A i \in 1..Len(s) : s[i] = t[i]

\* The order of the steps of a run that found the marker / did not find it.
StepsWithMarker ==
    <<"check", "build_call", "build_ret", "emit_search", "emit_lib">>

StepsWithoutMarker ==
    <<"check", "reconf_call", "reconf_ret", "build_call", "build_ret",
      "emit_search", "emit_lib">>

ReconfFailed == reconfOutcome \in {"launchfail", "nonzero"}

\* C1: in a run that started without the marker, once autoreconf could not be
\* launched or exited non-zero, the run has aborted with a non-zero exit code,
\* autotools::build has not been and is not about to be invoked, and nothing
\* has been printed.
C1_ReconfFailureIsFatal ==
    (~startMarker /\ ReconfFailed) =>
        /\ pc = "exited"
        /\ exitCode = "101"
        /\ buildCalls = 0
        /\ stdout = <<>>

\* C2: in a run where autotools::build failed, no directive has been printed
\* at any point (nothing is printed before the build returns, and nothing
\* after it failed) and the run has ended with a non-zero exit code.
C2_BuildFailureEmitsNothing ==
    /\ buildOutcome = "none" => stdout = <<>>
    /\ buildOutcome = "fail" =>
          /\ stdout = <<>>
          /\ pc = "exited"
          /\ exitCode = "101"

C2_Witness ==
    /\ buildOutcome = "fail"
    /\ buildCalls = 1
    /\ pc = "exited"
    /\ exitCode = "101"

\* C3: a run that starts with the marker present never invokes autoreconf and
\* goes from the marker check straight to the build; when the marker was
\* there before the first run, this is so in every one of the runs.
C3_MarkerPresentNoReconf ==
    /\ startMarker =>
          /\ reconfCalls = 0
          /\ reconfOutcome = "none"
          /\ Len(trace) >= 2 => (trace[1] = "check" /\ trace[2] = "build_call")
    /\ firstMarker => (startMarker /\ reconfCalls = 0 /\ reconfOkTotal = 0)

C3_Witness ==
    /\ firstMarker
    /\ run >= 2
    /\ startMarker
    /\ buildCalls = 1
    /\ trace[2] = "build_call"

\* C4: a run that starts with the marker absent invokes autoreconf exactly
\* once: never more than once, once by the time the run has ended, and the
\* build is attempted only after that one invocation has returned.
C4_MarkerAbsentReconfOnceBeforeBuild ==
    ~startMarker =>
        /\ reconfCalls <= 1
        /\ pc = "exited" => reconfCalls = 1
        /\ buildCalls > 0 =>
              /\ reconfCalls = 1
              /\ reconfOutcome # "none"
              /\ IsPrefix(<<"check", "reconf_call", "reconf_ret", "build_call">>,
                          trace)

C4_Witness ==
    /\ ~startMarker
    /\ reconfCalls = 1
    /\ buildCalls = 1
    /\ pc = "exited"

\* C5: after a successful build that returned the directory D, the first line
\* printed is cargo:rustc-link-search=native= followed by D followed by /lib
\* and the second is cargo:rustc-link-lib=static=mypkg, and a run that ended
\* printed both, whatever D is and whether or not the marker was present.
C5_DirectivesExact ==
    buildOutcome = "ok" =>
        /\ Len(stdout) <= 2
        /\ Len(stdout) >= 1 =>
              stdout[1] = "cargo:rustc-link-search=native=" \o PathText(dst) \o "/lib"
        /\ Len(stdout) >= 2 => stdout[2] = "cargo:rustc-link-lib=static=mypkg"
        /\ pc = "exited" => Len(stdout) = 2

C5_Witness ==
    /\ buildOutcome = "ok"
    /\ pc = "exited"
    /\ ~startMarker
    /\ dst = <<"/tmp", "/out">>
    /\ stdout = <<"cargo:rustc-link-search=native=/tmp/out/lib",
                  "cargo:rustc-link-lib=static=mypkg">>

BothDirectives ==
    /\ Len(stdout) = 2
    /\ stdout[1] = "cargo:rustc-link-search=native=" \o PathText(dst) \o "/lib"
    /\ stdout[2] = "cargo:rustc-link-lib=static=mypkg"

\* C6: a run that has ended has exit code 0 exactly when it printed both
\* directives; one that ended with a non-zero exit code printed nothing; and
\* no run that ended printed just one directive.
C6_ExitZeroIffDirectives ==
    pc = "exited" =>
        /\ exitCode \in {"0", "101"}
        /\ exitCode = "0" <=> BothDirectives
        /\ exitCode # "0" => stdout = <<>>
        /\ Len(stdout) # 1

C6_Witness ==
    /\ pc = "exited"
    /\ exitCode = "0"
    /\ BothDirectives
    /\ buildOutcome = "ok"

\* C7: the steps of a run are an initial segment of: marker check, (when the
\* marker was absent) autoreconf called, autoreconf returned, build called,
\* build returned, search-path directive, link-name directive; the script is
\* inside an external call exactly between that call and its return.
C7_FixedStepOrder ==
    /\ IsPrefix(trace, IF startMarker THEN StepsWithMarker ELSE StepsWithoutMarker)
    /\ pc = "in_autoreconf" <=> (trace # <<>> /\ trace[Len(trace)] = "reconf_call")
    /\ pc = "in_build" <=> (trace # <<>> /\ trace[Len(trace)] = "build_call")

C7_Witness ==
    /\ ~startMarker
    /\ trace = StepsWithoutMarker
    /\ pc = "exited"

\* C8: in every run autoreconf and the build are each invoked at most once,
\* and after either has failed no external process is invoked and the run
\* does not reach the printing of the directives.
C8_NoRetryNoFallback ==
    /\ reconfCalls <= 1
    /\ buildCalls <= 1
    /\ (ReconfFailed \/ buildOutcome = "fail") =>
          /\ pc \notin {"call_build", "in_build", "emit_search", "emit_lib", "return"}
          /\ stdout = <<>>
    /\ ReconfFailed => buildCalls = 0

\* C9: over all the runs on one source tree autoreconf succeeds at most once;
\* once it has, the marker is there, and every later run starts with the
\* marker present and does not invoke autoreconf.
C9_ReconfSucceedsAtMostOnce ==
    /\ reconfOkTotal <= 1
    /\ reconfOkTotal >= 1 => marker
    /\ (reconfOkTotal >= 1 /\ reconfOutcome # "exit0") =>
          (startMarker /\ reconfCalls = 0)

C9_Witness ==
    /\ run >= 2
    /\ reconfOkTotal = 1
    /\ reconfOutcome = "none"
    /\ startMarker
    /\ ~firstMarker
    /\ pc = "exited"

InExternalCall == pc \in {"in_autoreconf", "in_build"}

\* C10: if autoreconf and the build always return, every run ends (having
\* printed both directives or having aborted); while the script is inside an
\* external call the only step it can take is that call returning (there is
\* no timeout or cancellation), and a call that has been made and has not
\* returned keeps the script inside it with nothing printed.
C10_TerminatesOrBlocks ==
    /\ (WF_vars(ReconfReturns) /\ WF_vars(BuildReturns)) =>
          []<>(pc = "exited" /\ (BothDirectives \/ exitCode = "101"))
    /\ [][InExternalCall =>
            trace' = Append(trace, IF pc = "in_autoreconf" THEN "reconf_ret"
                                   ELSE "build_ret")]_vars
    /\ []((trace # <<>> /\ trace[Len(trace)] \in {"reconf_call", "build_call"}) =>
            (InExternalCall /\ stdout = <<>> /\ exitCode = "running"))

C10_Witness ==
    /\ pc = "in_build"
    /\ reconfOutcome = "exit0"
    /\ trace[Len(trace)] = "build_call"
    /\ stdout = <<>>

====
